---- MODULE Spec2Model ----
(***************************************************************************)
(* Visual comparison of a staging and a production deployment.             *)
(*                                                                         *)
(* The module models the Playwright test "Compare staging and prod         *)
(* screenshots and generate HTML report": the loop over the configured     *)
(* page paths, captureScreenshot (navigation, cookie banner, lazy-load     *)
(* scrolling, image wait, screenshot), compareScreenshots (resize to       *)
(* 1280x800, pixelmatch, diff file, similarity percentage) and             *)
(* generateHtmlReport (summary counts, in-place sort, rows).               *)
(*                                                                         *)
(* Modelling conventions                                                   *)
(*  - A page path is a sequence of one-character strings, so that the      *)
(*    replace(/\//g, "_") of the source is a computation on characters.    *)
(*  - A JavaScript value that may be a number or a string is a record      *)
(*    with the field type ("number" | "string"); a number is the exact     *)
(*    rational num/den.                                                    *)
(*  - An image is a white canvas of width x height pixels carrying one     *)
(*    axis-parallel rectangle of gray level `level` (0 = no ink); pixel    *)
(*    counts are computed from the rectangles' areas, which is the count   *)
(*    a per-pixel loop over the two buffers gives for such images.         *)
(*                                                                         *)
(* Specifications                                                          *)
(*  - Spec: the test on the first pages of config.js, imports completed,   *)
(*    pages of fixed height, any leftovers of an earlier run on disk.      *)
(*  - SpecAgg: generateHtmlReport on the result lists it may be handed.    *)
(*  - SpecFeed: Spec with sites that may serve a page that grows while it  *)
(*    is scrolled, and the runner's test timeout; weakly fair captures.    *)
(*  - SpecPaths: the test on a configuration with a nested page path.      *)
(*  - SpecImports: the test started while the import callback may still    *)
(*    be waiting for pixelmatch or chalk.                                  *)
(***************************************************************************)
EXTENDS Integers, Sequences, FiniteSets, TLC

VARIABLES
  ipc,          \* position of the callback that imports pixelmatch and chalk
  urls,         \* config.staging.urls of this run
  fs,           \* file system: file path -> file content
  pc,           \* position of the test body
  idx,          \* position of the for-of loop in urls (1-based)
  results,      \* the results array of the test body
  env,          \* environment of the capture in progress
  cpc,          \* position inside captureScreenshot
  dom,          \* document shown by the shared browser page
  totalHeight,  \* totalHeight of the scrolling callback
  attempts,     \* history: navigate-to-screenshot sequences started by the capture in progress
  error,        \* the error caught by the catch clause of captureScreenshot
  capStatus,    \* history: how the two captures of the current page ended
  failedCaptures, \* history: captures of this run that ended in the catch clause
  cmp,          \* history: what compareScreenshots did for the current page
  summary,      \* passed / failed / errors / total written into the report
  rows,         \* table rows written into the report
  runs          \* number of generateHtmlReport calls so far

vars == <<ipc, urls, fs, pc, idx, results, env, cpc, dom, totalHeight, attempts,
          error, capStatus, failedCaptures, cmp, summary, rows, runs>>

-----------------------------------------------------------------------------
(* Bounds of the model *)

MaxPages == 2       \* longest configured page list explored
MaxResults == 4     \* longest result list handed to the aggregation alone
MaxRuns == 2        \* generateHtmlReport calls on one list (re-run)
MaxTicks == 6       \* scroll steps of one capture the model follows

-----------------------------------------------------------------------------
(* Program constants *)

CanonicalWidth == 1280
CanonicalHeight == 800
ViewportWidth == 1280
ViewportHeight == 800
ScrollDistance == 300
PassMark == 95
ThresholdNum == 1
ThresholdDen == 10

-----------------------------------------------------------------------------
(* JavaScript values *)

Num(n, d) == [type |-> "number", str |-> "", num |-> n, den |-> d]
Str(s) == [type |-> "string", str |-> s, num |-> 0, den |-> 1]
IsNumber(v) == v.type = "number"
ErrorValue == Str("Error")
SizeMismatchValue == Str("Size mismatch")

RECURSIVE Gcd(_, _)
Gcd(a, b) == IF b = 0 THEN a ELSE Gcd(b, a % b)

\* the number n/d (n >= 0, d > 0) in lowest terms, so that equal numbers
\* are equal records
Ratio(n, d) == LET g == Gcd(n, d) IN Num(n \div g, d \div g)

\* a - b for two numbers >= 0, as an integer of the same sign (whole parts
\* first, then the fractional parts, to stay within 32-bit integers)
NumDiff(a, b) ==
  LET qa == a.num \div a.den
      qb == b.num \div b.den
  IN  IF qa # qb THEN qa - qb
      ELSE (a.num % a.den) * b.den - (b.num % b.den) * a.den
\* v >= k and v < k for a number v and an integer k
NumGE(v, k) == v.num >= k * v.den
NumLT(v, k) == v.num < k * v.den

-----------------------------------------------------------------------------
(* Page paths and file paths *)

Root == <<"/">>
Events == <<"/", "e", "v", "e", "n", "t", "s">>
Durant == <<"/", "d", "u", "r", "a", "n", "t">>
Pocola == <<"/", "p", "o", "c", "o", "l", "a">>
Grant == <<"/", "g", "r", "a", "n", "t">>

\* page paths of config.js, in the order the model configures them
ConfigUrls == <<Root, Events, Durant, Pocola, Grant>>

\* the page lists a run may be configured with
UrlLists == {SubSeq(ConfigUrls, 1, n) : n \in 0..MaxPages}

\* pagePath.replace(/\//g, "_")
Sanitize(pagePath) ==
  [i \in DOMAIN pagePath |-> IF pagePath[i] = "/" THEN "_" ELSE pagePath[i]]

\* path.join(baseDir, dir, `${sanitized}.png`)
FilePath(dir, pagePath) == <<dir, Sanitize(pagePath)>>

Dirs == {"staging", "prod", "diff"}
AllFilePaths == {FilePath(d, ConfigUrls[i]) : d \in Dirs, i \in 1..MaxPages}

-----------------------------------------------------------------------------
(* Files and images *)

NoFile == [kind |-> "absent"]
\* a file that is not a decodable image (a truncated PNG of a killed run)
CorruptFile == [kind |-> "corrupt"]

Png(w, h, x, y, bw, bh, l) ==
  [kind |-> "png", width |-> w, height |-> h,
   bx |-> x, by |-> y, bw |-> bw, bh |-> bh, level |-> l]

\* the diff PNG pixelmatch fills: its size and the number of marked pixels
DiffPng(w, h, n) == [kind |-> "diff", width |-> w, height |-> h, marked |-> n]

Exists(f, p) == f[p].kind # "absent"

\* what the two sites may render for a page: a plain page one viewport
\* high, the same page with a 100x100 block that differs visibly, and that
\* page two viewports high
Document(h, c) == [height |-> h, content |-> c]
Documents == {Document(800, "plain"), Document(800, "block"), Document(1600, "block")}
\* the page before any navigation, and after a failed one
NoDocument == Document(0, "none")
\* a page that appends content whenever it is scrolled (an endless feed):
\* every scroll step lengthens the document by what was scrolled
Feed == Document(ViewportHeight, "feed")
Grown(d) ==
  IF d.content = "feed" THEN Document(d.height + ScrollDistance, d.content) ELSE d

\* the block some renderings carry: 100x100 pixels at (200, 100), of a gray
\* level far from the background (200) or within the colour tolerance (20)
DarkBlock(w, h) == Png(w, h, 200, 100, 100, 100, 200)
FaintBlock(w, h) == Png(w, h, 200, 100, 100, 100, 20)

\* page.screenshot({fullPage: true}): the whole document at viewport width
FullPageImage(d) ==
  LET h == IF d.height > ViewportHeight THEN d.height ELSE ViewportHeight
  IN  IF d.content = "block"
      THEN DarkBlock(ViewportWidth, h)
      ELSE Png(ViewportWidth, h, 0, 0, 0, 0, 0)

\* files an earlier run may have left behind; the stale image carries a
\* block that differs from the page by less than the colour tolerance
StaleImage == FaintBlock(CanonicalWidth, CanonicalHeight)
StaleDiff == DiffPng(CanonicalWidth, CanonicalHeight, 7)

\* sharp(buffer).resize(width, height, {fit: "contain", background: transparent}):
\* the picture is scaled by the largest factor that fits it into the box, is
\* centred, and the rest of the box is padding; the output is width x height
resizeImage(img, width, height) ==
  LET widthBound == img.width * height >= img.height * width
      cw == IF widthBound THEN width ELSE (img.width * height) \div img.height
      ch == IF widthBound THEN (img.height * width) \div img.width ELSE height
      left == (width - cw) \div 2
      top == (height - ch) \div 2
  IN  Png(width, height,
          IF img.bw = 0 THEN 0 ELSE left + (img.bx * cw) \div img.width,
          IF img.bw = 0 THEN 0 ELSE top + (img.by * ch) \div img.height,
          (img.bw * cw) \div img.width,
          (img.bh * ch) \div img.height,
          img.level)

\* pixelmatch's test of one pixel pair: the colour delta of two gray levels
\* (0.5053 * d^2 in YIQ) against maxDelta = 35215 * threshold^2
PixelDiffers(l1, l2) ==
  5053 * (l1 - l2) * (l1 - l2)
    > (352150000 * ThresholdNum * ThresholdNum) \div (ThresholdDen * ThresholdDen)

Max(a, b) == IF a > b THEN a ELSE b
Min(a, b) == IF a < b THEN a ELSE b

\* number of pixels two rectangles share
Overlap(a, b) ==
  LET w == Min(a.bx + a.bw, b.bx + b.bw) - Max(a.bx, b.bx)
      h == Min(a.by + a.bh, b.by + b.bh) - Max(a.by, b.by)
  IN  IF w > 0 /\ h > 0 THEN w * h ELSE 0

\* a comparison of each image with the background instead of with the other
pixelmatchAgainstBackground(img1, img2) ==
  (IF PixelDiffers(img1.level, 0) THEN img1.bw * img1.bh ELSE 0)
    + (IF PixelDiffers(img2.level, 0) THEN img2.bw * img2.bh ELSE 0)

\* pixelmatch(img1.data, img2.data, out, width, height, {threshold}): the
\* number of pixels whose colours differ by more than the tolerance
pixelmatch(img1, img2) ==
  LET both == Overlap(img1, img2)
      only1 == img1.bw * img1.bh - both
      only2 == img2.bw * img2.bh - both
  IN  (IF PixelDiffers(img1.level, 0) THEN only1 ELSE 0)
    + (IF PixelDiffers(img2.level, 0) THEN only2 ELSE 0)
    + (IF PixelDiffers(img1.level, img2.level) THEN both ELSE 0)

\* the share of the mismatched pixels instead of the matched ones
MismatchShareOf(totalPixels, mismatchedPixels) ==
  Ratio(mismatchedPixels * 100, totalPixels)

\* (matchedPixels / totalPixels) * 100
SimilarityOf(totalPixels, mismatchedPixels) ==
  Ratio((totalPixels - mismatchedPixels) * 100, totalPixels)

-----------------------------------------------------------------------------
(* compareScreenshots *)

SharpError == "Input buffer contains unsupported image format"

\* What one call does: ret is the value returned ("thrown" when the call
\* throws, then message is the error's message), files is the file system it
\* leaves, and the remaining fields record the steps it took.
CompareOutcome(ret, thrown, message, files, resized, diffed, wroteDiff, total, mismatched) ==
  [ret |-> ret, thrown |-> thrown, message |-> message, files |-> files,
   resized |-> resized, diffed |-> diffed, wroteDiff |-> wroteDiff,
   totalPixels |-> total, mismatchedPixels |-> mismatched]

\* compareScreenshots past its existence test: the two resizes, the two
\* reads, the size test, the diff and the similarity
compareExisting(f, baselinePath, currentPath, diffPath) ==
  \* await resizeImage(baselinePath, 1280, 800)
  IF f[baselinePath].kind # "png"
  THEN CompareOutcome(ErrorValue, TRUE, SharpError, f, 0, FALSE, FALSE, 0, 0)
  ELSE
  LET f1 == [f EXCEPT ![baselinePath] =
               resizeImage(f[baselinePath], CanonicalWidth, CanonicalHeight)]
  IN
  \* await resizeImage(currentPath, 1280, 800)
  IF f1[currentPath].kind # "png"
  THEN CompareOutcome(ErrorValue, TRUE, SharpError, f1, 1, FALSE, FALSE, 0, 0)
  ELSE
  LET f2 == [f1 EXCEPT ![currentPath] =
               resizeImage(f1[currentPath], CanonicalWidth, CanonicalHeight)]
      img1 == f2[baselinePath]
      img2 == f2[currentPath]
  IN
  IF img1.width # img2.width \/ img1.height # img2.height
  THEN CompareOutcome(SizeMismatchValue, FALSE, "", f2, 2, FALSE, FALSE, 0, 0)
  ELSE
  LET totalPixels == img1.width * img1.height
      marked == pixelmatch(img1, img2)
      f3 == [f2 EXCEPT ![diffPath] = DiffPng(img1.width, img1.height, marked)]
      mismatchedPixels == pixelmatch(img1, img2)
  IN  CompareOutcome(SimilarityOf(totalPixels, mismatchedPixels), FALSE, "", f3,
                     2, TRUE, TRUE, totalPixels, mismatchedPixels)

\* an existence test that looks at the baseline only
compareScreenshotsBaselineOnly(f, baselinePath, currentPath, diffPath) ==
  IF ~Exists(f, baselinePath)
  THEN CompareOutcome(ErrorValue, FALSE, "", f, 0, FALSE, FALSE, 0, 0)
  ELSE compareExisting(f, baselinePath, currentPath, diffPath)

\* a comparison that creates the diff file, still empty, before it looks at
\* its inputs
compareScreenshotsDiffFirst(f, baselinePath, currentPath, diffPath) ==
  LET f0 == [f EXCEPT ![diffPath] = DiffPng(0, 0, 0)]
  IN  IF ~Exists(f0, baselinePath) \/ ~Exists(f0, currentPath)
      THEN CompareOutcome(ErrorValue, FALSE, "", f0, 0, FALSE, FALSE, 0, 0)
      ELSE compareExisting(f0, baselinePath, currentPath, diffPath)

\* if (!fs.existsSync(baselinePath) || !fs.existsSync(currentPath)) return
\* "Error", else the comparison proper
compareScreenshots(f, baselinePath, currentPath, diffPath) ==
  IF ~Exists(f, baselinePath) \/ ~Exists(f, currentPath)
  THEN CompareOutcome(ErrorValue, FALSE, "", f, 0, FALSE, FALSE, 0, 0)
  ELSE compareExisting(f, baselinePath, currentPath, diffPath)

NoCompare == [resized |-> 0, diffed |-> FALSE, wroteDiff |-> FALSE, thrown |-> FALSE,
              totalPixels |-> 0, mismatchedPixels |-> 0, done |-> FALSE,
              img1 |-> NoFile, img2 |-> NoFile]

-----------------------------------------------------------------------------
(* generateHtmlReport: counts, sort, rows *)

\* { pagePath, similarityPercentage } and { pagePath, similarityPercentage: "Error", error }
Result(path, similarity, message) ==
  [pagePath |-> path, similarityPercentage |-> similarity, error |-> message]

\* results.filter(predicate).length for the three counters
CountPassed(rs) ==
  Cardinality({i \in DOMAIN rs :
     IsNumber(rs[i].similarityPercentage) /\ NumGE(rs[i].similarityPercentage, PassMark)})
CountFailed(rs) ==
  Cardinality({i \in DOMAIN rs :
     IsNumber(rs[i].similarityPercentage) /\ NumLT(rs[i].similarityPercentage, PassMark)})
CountErrors(rs) ==
  Cardinality({i \in DOMAIN rs : rs[i].similarityPercentage = ErrorValue})

\* the comparison function handed to results.sort
compareFn(a, b) ==
  IF a.similarityPercentage = ErrorValue THEN -1
  ELSE IF b.similarityPercentage = ErrorValue THEN 1
  ELSE IF IsNumber(a.similarityPercentage) /\ IsNumber(b.similarityPercentage)
       THEN NumDiff(a.similarityPercentage, b.similarityPercentage)
  ELSE 0

(* Array.prototype.sort of the runtime (Node.js, V8's TimSort).  An array of  *)
(* fewer than 64 elements is one run: the leading run is counted (a strictly  *)
(* descending one is reversed) and the rest is inserted by binary search.     *)
Reverse(a) == [i \in DOMAIN a |-> a[Len(a) + 1 - i]]

RECURSIVE RunEnd(_, _, _)
\* last index of the run that starts at 1, scanning from position i
RunEnd(a, descending, i) ==
  IF i > Len(a) THEN Len(a)
  ELSE LET order == compareFn(a[i], a[i - 1])
       IN  IF (descending /\ order >= 0) \/ (~descending /\ order < 0)
           THEN i - 1
           ELSE RunEnd(a, descending, i + 1)

\* CountAndMakeRun: the array with its leading run made ascending, and the
\* length of that run
CountAndMakeRun(a) ==
  IF Len(a) < 2 THEN [arr |-> a, run |-> Len(a)]
  ELSE LET descending == compareFn(a[2], a[1]) < 0
           n == RunEnd(a, descending, 3)
       IN  [arr |-> IF descending
                    THEN Reverse(SubSeq(a, 1, n)) \o SubSeq(a, n + 1, Len(a))
                    ELSE a,
            run |-> n]

RECURSIVE InsertionPoint(_, _, _, _)
\* binary search of pivot in a[left .. right-1]
InsertionPoint(a, pivot, left, right) ==
  IF left >= right THEN left
  ELSE LET mid == left + ((right - left) \div 2)
       IN  IF compareFn(pivot, a[mid]) < 0
           THEN InsertionPoint(a, pivot, left, mid)
           ELSE InsertionPoint(a, pivot, mid + 1, right)

RECURSIVE BinaryInsertionSort(_, _)
\* inserts a[start], a[start+1], ... into the sorted prefix before them
BinaryInsertionSort(a, start) ==
  IF start > Len(a) THEN a
  ELSE LET pivot == a[start]
           at == InsertionPoint(a, pivot, 1, start)
           moved == SubSeq(a, 1, at - 1) \o <<pivot>> \o SubSeq(a, at, start - 1)
                      \o SubSeq(a, start + 1, Len(a))
       IN  BinaryInsertionSort(moved, start + 1)

\* results.sort((a, b) => ...)
SortResults(rs) ==
  IF Len(rs) < 2 THEN rs
  ELSE LET made == CountAndMakeRun(rs)
       IN  BinaryInsertionSort(made.arr, made.run + 1)

\* statusText of a table row
StatusText(r) ==
  IF IsNumber(r.similarityPercentage)
  THEN IF NumGE(r.similarityPercentage, PassMark) THEN "Pass" ELSE "Fail"
  ELSE "Error"

\* imageToBase64(path) is null for a missing file, and the cell shows "N/A"
HasImage(f, dir, pagePath) ==
  FilePath(dir, pagePath) \in DOMAIN f /\ Exists(f, FilePath(dir, pagePath))

\* one <tr> of the report
Row(f, r) ==
  [pagePath |-> r.pagePath, statusText |-> StatusText(r),
   staging |-> HasImage(f, "staging", r.pagePath),
   prod |-> HasImage(f, "prod", r.pagePath),
   diff |-> HasImage(f, "diff", r.pagePath)]

\* the summary block of the report
Summary(rs) ==
  [total |-> Len(rs), passed |-> CountPassed(rs), failed |-> CountFailed(rs),
   errors |-> CountErrors(rs)]

NoSummary == [total |-> -1, passed |-> -1, failed |-> -1, errors |-> -1]

-----------------------------------------------------------------------------
(* Initial states *)

\* What an earlier run may have left for a page: nothing; the three files of
\* a complete run; the files of a run killed while it wrote the prod image;
\* a diff image whose screenshots were removed.
StaleProfiles == {"fresh", "complete", "broken", "diffOnly"}

ProfileFile(profile, dir) ==
  CASE profile = "complete" -> IF dir = "diff" THEN StaleDiff ELSE StaleImage
    [] profile = "broken" ->
         IF dir = "staging" THEN StaleImage
         ELSE IF dir = "prod" THEN CorruptFile ELSE StaleDiff
    [] profile = "diffOnly" -> IF dir = "diff" THEN StaleDiff ELSE NoFile
    [] OTHER -> NoFile

InitialFileSystems(us) ==
  {[p \in AllFilePaths |->
      LET i == CHOOSE k \in 1..MaxPages : p[2] = Sanitize(ConfigUrls[k])
      IN  IF i <= Len(us) THEN ProfileFile(profiles[i], p[1]) ELSE NoFile] :
     profiles \in [1..MaxPages -> StaleProfiles]}

NoCaptures == [staging |-> "none", prod |-> "none"]

\* the test body before its first statement
TestNotStarted ==
  /\ pc = "start"
  /\ idx = 1
  /\ results = <<>>
  /\ env = "none"
  /\ cpc = "idle"
  /\ dom = NoDocument
  /\ totalHeight = 0
  /\ attempts = 0
  /\ error = ""
  /\ capStatus = NoCaptures
  /\ failedCaptures = 0
  /\ cmp = NoCompare
  /\ summary = NoSummary
  /\ rows = <<>>
  /\ runs = 0

\* the module variables the import callback has set so far:
\* pixelmatch = (await import("pixelmatch")).default, then
\* chalk = (await import("chalk")).default
pixelmatchSet == ipc \in {"chalk", "done"}
chalkSet == ipc = "done"

\* a run whose imports completed before the test started
Init ==
  /\ ipc = "done"
  /\ urls \in UrlLists
  /\ fs \in InitialFileSystems(urls)
  /\ TestNotStarted

-----------------------------------------------------------------------------
(* The test body *)

pagePath == urls[idx]

\* console.log(chalk.blue("Running tests...")), mkdir of the three
\* directories, browser.newContext, context.newPage
StartTest ==
  /\ pc = "start"
  /\ chalkSet
  /\ pc' = "loop"
  /\ UNCHANGED <<ipc, urls, fs, idx, results, env, cpc, dom, totalHeight, attempts, error,
                 capStatus, cmp, summary, rows, runs, failedCaptures>>

\* for (const pagePath of config.staging.urls): the next page, staging first
BeginPage ==
  /\ pc = "loop"
  /\ idx <= Len(urls)
  /\ pc' = "capture"
  /\ env' = "staging"
  /\ cpc' = "goto"
  /\ attempts' = 1
  /\ capStatus' = NoCaptures
  /\ cmp' = NoCompare
  /\ UNCHANGED <<ipc, urls, fs, idx, results, dom, totalHeight, error, summary, rows, runs, failedCaptures>>

\* the loop is exhausted
EndLoop ==
  /\ pc = "loop"
  /\ idx > Len(urls)
  /\ pc' = "report"
  /\ UNCHANGED <<ipc, urls, fs, idx, results, env, cpc, dom, totalHeight, attempts, error,
                 capStatus, cmp, summary, rows, runs, failedCaptures>>

-----------------------------------------------------------------------------
(* captureScreenshot(page, url, screenshotPath) *)

InCapture(step) == pc = "capture" /\ cpc = step

\* a step of the try block throws: control goes to the catch clause
Throw(message) ==
  /\ cpc' = "catch"
  /\ error' = message

\* page.goto(url, {waitUntil: "domcontentloaded", timeout: 60000}) resolves
Goto ==
  /\ InCapture("goto")
  /\ \E d \in Documents : dom' = d
  /\ cpc' = "cookies"
  /\ UNCHANGED <<ipc, urls, fs, pc, idx, results, env, totalHeight, attempts, error,
                 capStatus, cmp, summary, rows, runs, failedCaptures>>

\* page.goto rejects (timeout, network error): no document is shown
GotoFails ==
  /\ InCapture("goto")
  /\ Throw("page.goto: Timeout 60000ms exceeded")
  /\ dom' = NoDocument
  /\ UNCHANGED <<ipc, urls, fs, pc, idx, results, env, totalHeight, attempts,
                 capStatus, cmp, summary, rows, runs, failedCaptures>>

\* a cookie step without its try/catch: the failure of the locator (no
\* banner to click) reaches the catch clause of captureScreenshot
acceptCookiesUncaught ==
  /\ InCapture("cookies")
  /\ Throw("locator.click: Timeout 30000ms exceeded")
  /\ UNCHANGED <<ipc, urls, fs, pc, idx, results, env, dom, totalHeight, attempts,
                 capStatus, cmp, summary, rows, runs, failedCaptures>>

\* acceptCookies(page): clicks the banner if it is visible; its own
\* try/catch swallows every failure
acceptCookies ==
  /\ InCapture("cookies")
  /\ cpc' = "scroll"
  /\ totalHeight' = 0
  /\ UNCHANGED <<ipc, urls, fs, pc, idx, results, env, dom, attempts, error,
                 capStatus, cmp, summary, rows, runs, failedCaptures>>

\* one tick of the scrolling interval: scrollBy(0, distance), and resolve
\* once totalHeight has reached document.body.scrollHeight
ScrollTick ==
  /\ InCapture("scroll")
  /\ totalHeight < MaxTicks * ScrollDistance
  /\ totalHeight' = totalHeight + ScrollDistance
  /\ dom' = Grown(dom)
  /\ cpc' = IF totalHeight' >= dom'.height THEN "waitImages" ELSE "scroll"
  /\ UNCHANGED <<ipc, urls, fs, pc, idx, results, env, attempts, error,
                 capStatus, cmp, summary, rows, runs, failedCaptures>>

\* page.waitForFunction(all images complete, {timeout: 5000}) resolves
WaitForImages ==
  /\ InCapture("waitImages")
  /\ cpc' = "scrollTop"
  /\ UNCHANGED <<ipc, urls, fs, pc, idx, results, env, dom, totalHeight, attempts, error,
                 capStatus, cmp, summary, rows, runs, failedCaptures>>

\* page.waitForFunction rejects with a TimeoutError after 5000 ms
WaitForImagesTimeout ==
  /\ InCapture("waitImages")
  /\ Throw("page.waitForFunction: Timeout 5000ms exceeded")
  /\ UNCHANGED <<ipc, urls, fs, pc, idx, results, env, dom, totalHeight, attempts,
                 capStatus, cmp, summary, rows, runs, failedCaptures>>

\* page.evaluate(() => window.scrollTo(0, 0))
ScrollTop ==
  /\ InCapture("scrollTop")
  /\ cpc' = "settle"
  /\ UNCHANGED <<ipc, urls, fs, pc, idx, results, env, dom, totalHeight, attempts, error,
                 capStatus, cmp, summary, rows, runs, failedCaptures>>

\* page.waitForTimeout(2000)
Settle ==
  /\ InCapture("settle")
  /\ cpc' = "screenshot"
  /\ UNCHANGED <<ipc, urls, fs, pc, idx, results, env, dom, totalHeight, attempts, error,
                 capStatus, cmp, summary, rows, runs, failedCaptures>>

\* ensureDirectoryExistence, page.screenshot({path, fullPage: true}), and the
\* function returns
Screenshot ==
  /\ InCapture("screenshot")
  /\ fs' = [fs EXCEPT ![FilePath(env, pagePath)] = FullPageImage(dom)]
  /\ capStatus' = [capStatus EXCEPT ![env] = "ok"]
  /\ cpc' = "returned"
  /\ UNCHANGED <<ipc, urls, pc, idx, results, env, dom, totalHeight, attempts, error,
                 cmp, summary, rows, runs, failedCaptures>>

\* page.screenshot rejects
ScreenshotFails ==
  /\ InCapture("screenshot")
  /\ Throw("page.screenshot: Target closed")
  /\ UNCHANGED <<ipc, urls, fs, pc, idx, results, env, dom, totalHeight, attempts,
                 capStatus, cmp, summary, rows, runs, failedCaptures>>

\* catch (error): the failure is logged and the function returns normally
CaptureCatch ==
  /\ InCapture("catch")
  /\ cpc' = "returned"
  /\ capStatus' = [capStatus EXCEPT ![env] = "failed"]
  /\ failedCaptures' = failedCaptures + 1
  /\ UNCHANGED <<ipc, urls, fs, pc, idx, results, env, dom, totalHeight, attempts, error,
                 cmp, summary, rows, runs>>

\* a loop body that goes from the staging capture straight to the comparison
CaptureReturnsToCompare ==
  /\ InCapture("returned")
  /\ env' = "none"
  /\ cpc' = "idle"
  /\ attempts' = 0
  /\ pc' = "compare"
  /\ error' = ""
  /\ totalHeight' = 0
  /\ UNCHANGED <<ipc, urls, fs, idx, results, dom, capStatus, cmp, summary, rows, runs, failedCaptures>>

\* the await of the test body resumes: prod after staging, then the comparison
CaptureReturns ==
  /\ InCapture("returned")
  /\ IF env = "staging"
     THEN /\ env' = "prod"
          /\ cpc' = "goto"
          /\ attempts' = 1
          /\ pc' = pc
     ELSE /\ env' = "none"
          /\ cpc' = "idle"
          /\ attempts' = 0
          /\ pc' = "compare"
  /\ error' = ""
  /\ totalHeight' = 0
  /\ UNCHANGED <<ipc, urls, fs, idx, results, dom, capStatus, cmp, summary, rows, runs, failedCaptures>>

-----------------------------------------------------------------------------
(* Comparison and report *)

\* a catch clause that records nothing for the page
PushedUnlessThrown(rs, path, out) ==
  IF out.thrown THEN rs ELSE Append(rs, Result(path, out.ret, ""))

\* results.push({pagePath, similarityPercentage: similarity}) of the try
\* block, or the push of the "Error" record by the catch clause
Pushed(rs, path, out) ==
  Append(rs, IF out.thrown
             THEN Result(path, ErrorValue, out.message)
             ELSE Result(path, out.ret, ""))

\* const similarity = await compareScreenshots(...), then the push
ComparePage ==
  /\ pc = "compare"
  /\ LET out == compareScreenshots(fs, FilePath("staging", pagePath),
                                   FilePath("prod", pagePath),
                                   FilePath("diff", pagePath))
     IN  /\ fs' = out.files
         /\ cmp' = [resized |-> out.resized, diffed |-> out.diffed,
                    wroteDiff |-> out.wroteDiff, thrown |-> out.thrown,
                    totalPixels |-> out.totalPixels,
                    mismatchedPixels |-> out.mismatchedPixels, done |-> TRUE,
                    img1 |-> IF out.resized = 2
                             THEN out.files[FilePath("staging", pagePath)] ELSE NoFile,
                    img2 |-> IF out.resized = 2
                             THEN out.files[FilePath("prod", pagePath)] ELSE NoFile]
         /\ results' = Pushed(results, pagePath, out)
  /\ idx' = idx + 1
  /\ pc' = "loop"
  /\ UNCHANGED <<ipc, urls, env, cpc, dom, totalHeight, attempts, error, capStatus,
                 summary, rows, runs, failedCaptures>>

\* the state generateHtmlReport leaves: counts taken, results sorted in
\* place, one row per result, report file written
ReportWritten ==
  /\ summary' = Summary(results)
  /\ results' = SortResults(results)
  /\ rows' = [i \in DOMAIN results |-> Row(fs, SortResults(results)[i])]
  /\ runs' = runs + 1

\* generateHtmlReport(results, deviceName)
generateHtmlReport ==
  /\ pc = "report"
  /\ ReportWritten
  /\ pc' = "close"
  /\ UNCHANGED <<ipc, urls, fs, idx, env, cpc, dom, totalHeight, attempts, error,
                 capStatus, cmp, failedCaptures>>

\* await context.close()
ContextClose ==
  /\ pc = "close"
  /\ pc' = "done"
  /\ UNCHANGED <<ipc, urls, fs, idx, results, env, cpc, dom, totalHeight, attempts, error,
                 capStatus, cmp, summary, rows, runs, failedCaptures>>

Next ==
  \/ StartTest
  \/ BeginPage
  \/ EndLoop
  \/ Goto
  \/ GotoFails
  \/ acceptCookies
  \/ ScrollTick
  \/ WaitForImages
  \/ WaitForImagesTimeout
  \/ ScrollTop
  \/ Settle
  \/ Screenshot
  \/ ScreenshotFails
  \/ CaptureCatch
  \/ CaptureReturns
  \/ ComparePage
  \/ generateHtmlReport
  \/ ContextClose

Spec == Init /\ [][Next]_vars

-----------------------------------------------------------------------------
(* The test on sites that may serve an endless feed *)

\* page.goto resolves on a page that grows while it is scrolled
GotoFeed ==
  /\ InCapture("goto")
  /\ dom' = Feed
  /\ cpc' = "cookies"
  /\ UNCHANGED <<ipc, urls, fs, pc, idx, results, env, totalHeight, attempts, error,
                 capStatus, cmp, summary, rows, runs, failedCaptures>>

\* test.setTimeout(3600000): the only limit on the scrolling promise, which
\* has no timeout of its own. The model scales the hour down to MaxTicks
\* scroll steps; when it is used up the runner fails the test where it
\* stands: the capture does not return, no result is pushed, no report is
\* written.
TestTimeout ==
  /\ InCapture("scroll")
  /\ totalHeight >= MaxTicks * ScrollDistance
  /\ pc' = "timedOut"
  /\ UNCHANGED <<ipc, urls, fs, idx, results, env, cpc, dom, totalHeight, attempts, error,
                 capStatus, cmp, summary, rows, runs, failedCaptures>>

NextFeed ==
  \/ Next
  \/ GotoFeed
  \/ TestTimeout

\* the steps of captureScreenshot, the runner's timeout included
CaptureStep ==
  \/ Goto
  \/ GotoFails
  \/ GotoFeed
  \/ acceptCookies
  \/ ScrollTick
  \/ WaitForImages
  \/ WaitForImagesTimeout
  \/ ScrollTop
  \/ Settle
  \/ Screenshot
  \/ ScreenshotFails
  \/ CaptureCatch
  \/ TestTimeout

\* a capture in progress is never abandoned: the browser answers or times
\* out, and the event loop runs the interval's callback and the
\* continuation of every await
SpecFeed == Init /\ [][NextFeed]_vars /\ WF_vars(CaptureStep)

-----------------------------------------------------------------------------
(* The test on a configuration with nested page paths *)

Nested == <<"/", "a", "/", "b">>
Flat == <<"/", "a", "_", "b">>

\* page paths a configuration may list besides the home page: a nested
\* path, and a path with an underscore
PathPool == {Root, Nested, Flat}

\* config.staging.urls with two different paths of the pool
PathLists == {<<p, q>> : p, q \in PathPool} \ {<<p, p>> : p \in PathPool}

PathFiles == {FilePath(d, p) : d \in Dirs, p \in PathPool}

\* a first run (empty screenshot directories) on such a configuration
InitPaths ==
  /\ ipc = "done"
  /\ urls \in PathLists
  /\ fs = [p \in PathFiles |-> NoFile]
  /\ TestNotStarted

SpecPaths == InitPaths /\ [][Next]_vars

-----------------------------------------------------------------------------
(* The test and the import callback side by side *)

\* pixelmatch = (await import("pixelmatch")).default
ImportPixelmatch ==
  /\ ipc = "pixelmatch"
  /\ ipc' = "chalk"
  /\ UNCHANGED <<urls, fs, pc, idx, results, env, cpc, dom, totalHeight, attempts, error,
                 capStatus, cmp, summary, rows, runs, failedCaptures>>

\* chalk = (await import("chalk")).default
ImportChalk ==
  /\ ipc = "chalk"
  /\ ipc' = "done"
  /\ UNCHANGED <<urls, fs, pc, idx, results, env, cpc, dom, totalHeight, attempts, error,
                 capStatus, cmp, summary, rows, runs, failedCaptures>>

\* console.log(chalk.blue("Running tests...")) while chalk is undefined: a
\* TypeError outside every try block, the test fails at its first statement
StartTestFails ==
  /\ pc = "start"
  /\ ~chalkSet
  /\ pc' = "failed"
  /\ error' = "Cannot read properties of undefined (reading 'blue')"
  /\ UNCHANGED <<ipc, urls, fs, idx, results, env, cpc, dom, totalHeight, attempts,
                 capStatus, cmp, summary, rows, runs, failedCaptures>>

\* the module is evaluated: the callback has been started and waits for its
\* first import; the runner may call the test at any time from here on
InitImports ==
  /\ ipc = "pixelmatch"
  /\ urls \in UrlLists
  /\ fs = [p \in AllFilePaths |-> NoFile]
  /\ TestNotStarted

NextImports ==
  \/ Next
  \/ ImportPixelmatch
  \/ ImportChalk
  \/ StartTestFails

SpecImports == InitImports /\ [][NextImports]_vars

-----------------------------------------------------------------------------
(* generateHtmlReport on its own: every result list it may be handed *)

\* the values compareScreenshots can return, with similarities on both
\* sides of the pass mark
OutcomePool ==
  {ErrorValue, SizeMismatchValue, Num(10, 1), Num(50, 1), Num(94999, 1000),
   Num(95, 1), Num(99, 1)}

ResultLists ==
  UNION {{[i \in 1..n |-> Result(ConfigUrls[i], o[i], "")] : o \in [1..n -> OutcomePool]} :
           n \in 0..MaxResults}

InitAgg ==
  /\ ipc = "done"
  /\ urls = <<>>
  /\ fs = [p \in AllFilePaths |-> NoFile]
  /\ pc = "aggregate"
  /\ idx = 1
  /\ results \in ResultLists
  /\ env = "none"
  /\ cpc = "idle"
  /\ dom = NoDocument
  /\ totalHeight = 0
  /\ attempts = 0
  /\ error = ""
  /\ capStatus = NoCaptures
  /\ failedCaptures = 0
  /\ cmp = NoCompare
  /\ summary = NoSummary
  /\ rows = <<>>
  /\ runs = 0

\* generateHtmlReport(results, deviceName), called again on the array it sorted
Aggregate ==
  /\ pc = "aggregate"
  /\ runs < MaxRuns
  /\ ReportWritten
  /\ UNCHANGED <<ipc, urls, fs, pc, idx, env, cpc, dom, totalHeight, attempts, error,
                 capStatus, failedCaptures, cmp>>

NextAgg == Aggregate

SpecAgg == InitAgg /\ [][NextAgg]_vars

-----------------------------------------------------------------------------
(* Properties *)

MaxAttempts == 3

LastResult == results[Len(results)]

\* the loop body of the current page has just finished
PageFinished == pc = "loop" /\ cmp.done

ResultOf(path) == CHOOSE r \in {results[i] : i \in DOMAIN results} : r.pagePath = path

\* the guards of the actions: in such a state the run can take a step
SomeStepEnabled ==
  \/ pc \in {"start", "loop", "compare", "report", "close"}
  \/ /\ pc = "capture"
     /\ cpc \in {"goto", "cookies", "scroll", "waitImages", "scrollTop", "settle",
                 "screenshot", "catch", "returned"}
     /\ env \in {"staging", "prod"}
     /\ cpc = "scroll" => totalHeight < MaxTicks * ScrollDistance

\* C1: every configured page path gets exactly one result, whatever fails:
\* while the loop runs the results are those of the pages processed so far,
\* in order; once the loop has ended there is one result per configured
\* path; and no failure leaves the run stuck before its end.
C1_OneResultPerPage ==
  /\ pc \in {"start", "loop", "capture", "compare"} =>
       /\ Len(results) = idx - 1
       /\ \A i \in DOMAIN results : results[i].pagePath = urls[i]
  /\ pc \in {"report", "close", "done"} =>
       /\ Len(results) = Len(urls)
       /\ \A i \in DOMAIN urls :
            Cardinality({j \in DOMAIN results : results[j].pagePath = urls[i]}) = 1
  /\ pc # "done" => SomeStepEnabled

\* a finished run of two pages whose first page failed in every way it can
\* (captures failed, comparison threw) and whose second page was compared
C1_Witness ==
  /\ pc = "done"
  /\ Len(urls) = 2
  /\ failedCaptures >= 2
  /\ ResultOf(urls[1]).similarityPercentage = ErrorValue
  /\ ResultOf(urls[1]).error = SharpError
  /\ IsNumber(ResultOf(urls[2]).similarityPercentage)

\* C2: a page one of whose captures failed gets the outcome "Error", and for
\* it no image is resized, pixelmatch is not called and no diff file is
\* written, whatever files were there before.
C2_CaptureFailureShortCircuits ==
  (PageFinished /\ "failed" \in {capStatus.staging, capStatus.prod}) =>
     /\ LastResult.similarityPercentage = ErrorValue
     /\ cmp.resized = 0
     /\ ~cmp.diffed
     /\ ~cmp.wroteDiff

\* C3: a capture that ends in failure has run the navigate-to-screenshot
\* sequence MaxAttempts times (every failure is retried while attempts
\* remain), and never more than MaxAttempts times.
C3_RetriedUpToThreeTimes ==
  /\ attempts <= MaxAttempts
  /\ (InCapture("returned") /\ capStatus[env] = "failed") => attempts = MaxAttempts

\* C4: a capture all of whose attempts failed ends by raising to its caller,
\* with the message of the last failure; it does not return normally.
C4_ExhaustionRaises ==
  (pc = "capture" /\ capStatus[env] = "failed") => cpc = "raised"

\* C5: the three counters classify every result: numbers >= 95 are passed,
\* numbers < 95 are failed, every other outcome ("Error", "Size mismatch")
\* is an error, so the counters add up to the number of results.
C5_CountsClassifyEveryResult ==
  runs >= 1 =>
    /\ summary.passed = CountPassed(results)
    /\ summary.failed = CountFailed(results)
    /\ summary.errors =
         Cardinality({i \in DOMAIN results : ~IsNumber(results[i].similarityPercentage)})
    /\ summary.passed + summary.failed + summary.errors = Len(results)

\* C6: after the sort every "Error" and "Size mismatch" record precedes
\* every numeric record, and the numeric records ascend.
C6_ErrorsFirstThenAscending ==
  runs >= 1 =>
    \A i, j \in DOMAIN results : i < j =>
      LET a == results[i].similarityPercentage
          b == results[j].similarityPercentage
      IN  /\ ~IsNumber(b) => ~IsNumber(a)
          /\ (IsNumber(a) /\ IsNumber(b)) => NumDiff(a, b) <= 0

\* C7: a second run of the aggregation on its own output leaves the order
\* and the counters as they are.
C7_RerunKeepsOrderAndCounts ==
  [][(runs >= 1 /\ runs' = runs + 1) => (results' = results /\ summary' = summary)]_vars

\* C8: a numeric similarity is (totalPixels - mismatchedPixels) / totalPixels
\* * 100 with totalPixels = width * height and 0 <= mismatchedPixels <=
\* totalPixels, hence within [0, 100]; for identical images it is 100.
C8_SimilarityOfEqualSizedImages ==
  (PageFinished /\ IsNumber(LastResult.similarityPercentage)) =>
     LET sim == LastResult.similarityPercentage
     IN  /\ cmp.img1.width = cmp.img2.width /\ cmp.img1.height = cmp.img2.height
         /\ cmp.totalPixels = cmp.img1.width * cmp.img1.height
         /\ 0 <= cmp.mismatchedPixels /\ cmp.mismatchedPixels <= cmp.totalPixels
         /\ sim = Ratio((cmp.totalPixels - cmp.mismatchedPixels) * 100, cmp.totalPixels)
         /\ NumGE(sim, 0) /\ ~NumLT(sim, 0) /\ sim.num <= 100 * sim.den
         /\ cmp.img1 = cmp.img2 =>
              (cmp.mismatchedPixels = 0 /\ sim = Num(100, 1))

\* two freshly captured renderings that carry the same block have been compared
C8_Witness ==
  /\ PageFinished
  /\ capStatus = [staging |-> "ok", prod |-> "ok"]
  /\ cmp.img1 = cmp.img2
  /\ cmp.img1.bw > 0
  /\ LastResult.similarityPercentage = Num(100, 1)

\* the scenario of C9: pages "/" and "/events", every capture succeeded, the
\* two images of "/" are identical and those of "/events" differ in one
\* 100x100 block (present in one, absent in the other)
BlockImage == DarkBlock(CanonicalWidth, CanonicalHeight)
PlainImage == Png(CanonicalWidth, CanonicalHeight, 0, 0, 0, 0, 0)

EndToEndScenario ==
  /\ pc = "done"
  /\ urls = <<Root, Events>>
  /\ failedCaptures = 0
  /\ fs[FilePath("staging", Root)] = fs[FilePath("prod", Root)]
  /\ {fs[FilePath("staging", Events)], fs[FilePath("prod", Events)]} = {PlainImage, BlockImage}

\* C9 as stated: the scenario ends with 1 passed (100%), 1 failed (< 95%), 0 errors
C9_OnePassedOneFailed ==
  EndToEndScenario =>
    /\ summary.passed = 1 /\ summary.failed = 1 /\ summary.errors = 0
    /\ ResultOf(Root).similarityPercentage = Num(100, 1)
    /\ NumLT(ResultOf(Events).similarityPercentage, PassMark)

\* C9 amended: the scenario ends with 2 passed, 0 failed and 0 errors: "/" at
\* 100% and "/events" at 99.0234375% (10,000 of 1,024,000 pixels mismatch)
C9_BothPassed ==
  EndToEndScenario =>
    /\ summary = [total |-> 2, passed |-> 2, failed |-> 0, errors |-> 0]
    /\ ResultOf(Root).similarityPercentage = Num(100, 1)
    /\ ResultOf(Events).similarityPercentage = Num(12675, 128)
    /\ \A i \in DOMAIN rows : rows[i].statusText = "Pass"

C9_Witness ==
  /\ EndToEndScenario
  /\ summary.total = 2
  /\ fs[FilePath("diff", Events)] = DiffPng(CanonicalWidth, CanonicalHeight, 100 * 100)

ImageWaitTimeout == "page.waitForFunction: Timeout 5000ms exceeded"

\* C10: a timeout of the image wait is not fatal to the attempt: it never
\* reaches the catch clause, so no capture ends as failed because of it.
C10_ImageWaitTimeoutIsNotFatal ==
  (pc = "capture" /\ cpc \in {"catch", "returned"}) => error # ImageWaitTimeout

\* C11: a run configured with no pages fails fast: it never reaches the
\* report or a normal end, and it writes no summary.
C11_EmptyPageListFailsFast ==
  urls = <<>> => (pc \notin {"report", "close", "done"} /\ runs = 0)

\* the comparison of the current page is about to start and one of its two
\* image files is absent
MissingAtCompare ==
  /\ pc = "compare"
  /\ ~Exists(fs, FilePath("staging", pagePath)) \/ ~Exists(fs, FilePath("prod", pagePath))

\* C12: when the comparison of a page starts with the staging or the prod
\* file absent, the page is recorded with the outcome "Error", nothing is
\* resized, pixelmatch is not called, no file is written (so no diff file),
\* and the loop goes on to the next page.
C12_MissingFileIsError ==
  [][MissingAtCompare =>
       /\ results' = Append(results, Result(pagePath, ErrorValue, ""))
       /\ cmp'.resized = 0
       /\ ~cmp'.diffed
       /\ ~cmp'.wroteDiff
       /\ fs' = fs
       /\ pc' = "loop"
       /\ idx' = idx + 1]_vars

\* a finished run of two pages: the prod capture of the first page failed
\* and left no file, the page was recorded as "Error" and the second page
\* was compared after it
C12_Witness ==
  /\ pc = "done"
  /\ Len(urls) = 2
  /\ Exists(fs, FilePath("staging", urls[1]))
  /\ ~Exists(fs, FilePath("prod", urls[1]))
  /\ ~Exists(fs, FilePath("diff", urls[1]))
  /\ ResultOf(urls[1]) = Result(urls[1], ErrorValue, "")
  /\ IsNumber(ResultOf(urls[2]).similarityPercentage)

\* The size test of compareScreenshots never fires in a run of the test:
\* both files have been resized to 1280x800 when they are read, so no page
\* is ever recorded with "Size mismatch".
SizeMismatchNeverRecorded ==
  /\ \A i \in DOMAIN results : results[i].similarityPercentage # SizeMismatchValue
  /\ cmp.done /\ cmp.resized = 2 =>
       /\ cmp.img1.width = CanonicalWidth /\ cmp.img1.height = CanonicalHeight
       /\ cmp.img2.width = CanonicalWidth /\ cmp.img2.height = CanonicalHeight

Finished(status) == status \in {"ok", "failed"}

\* C14: one capture at a time, in order. A capture is in progress only
\* inside the loop body of one page (whose predecessors all have their
\* results, in the configured order, and whose comparison has not started);
\* while the staging capture runs the prod capture has not begun; the prod
\* capture runs only after the staging capture has finished; the comparison
\* starts only after both have finished and with no capture in progress.
C14_OneCaptureAtATimeInOrder ==
  /\ (cpc # "idle") <=> (pc = "capture")
  /\ (env # "none") <=> (pc = "capture")
  /\ pc = "capture" =>
       /\ env \in {"staging", "prod"}
       /\ idx \in DOMAIN urls
       /\ Len(results) = idx - 1
       /\ \A i \in DOMAIN results : results[i].pagePath = urls[i]
       /\ ~cmp.done
       /\ env = "staging" =>
            /\ capStatus.prod = "none"
            /\ Finished(capStatus.staging) <=> (cpc = "returned")
       /\ env = "prod" =>
            /\ Finished(capStatus.staging)
            /\ Finished(capStatus.prod) <=> (cpc = "returned")
  /\ pc = "compare" =>
       /\ Finished(capStatus.staging)
       /\ Finished(capStatus.prod)
       /\ Len(results) = idx - 1
       /\ ~cmp.done

\* the prod capture of the second page is scrolling, after the staging
\* capture of that page has failed and the first page has been compared
C14_Witness ==
  /\ InCapture("scroll")
  /\ env = "prod"
  /\ idx = 2
  /\ capStatus = [staging |-> "failed", prod |-> "none"]
  /\ Len(results) = 1

\* C15: the steps of a capture follow one another in the order navigation,
\* cookie step, scrolling by ScrollDistance until the scrolled distance has
\* reached the document's height, (image wait,) scroll to top, settling
\* delay, screenshot: each position is entered from its predecessor only, the
\* cookie step always leads on to the scrolling, the scrolling is left only
\* with totalHeight >= scrollHeight, and a screenshot is taken only at the
\* end of that chain, of the document navigated to.
C15_StepsInOrder ==
  [][/\ (cpc' = "cookies" /\ cpc # "cookies") => (cpc = "goto" /\ dom' \in Documents)
     /\ (cpc = "cookies" /\ cpc' # "cookies") => (cpc' = "scroll" /\ totalHeight' = 0)
     /\ cpc' = "scroll" =>
          /\ cpc \in {"cookies", "scroll"}
          /\ cpc = "scroll" => totalHeight' = totalHeight + ScrollDistance
          /\ totalHeight' < dom'.height
     /\ (cpc' = "waitImages" /\ cpc # "waitImages") =>
          /\ cpc = "scroll"
          /\ totalHeight' = totalHeight + ScrollDistance
          /\ totalHeight' >= dom'.height
     /\ (cpc' = "scrollTop" /\ cpc # "scrollTop") => cpc = "waitImages"
     /\ (cpc' = "settle" /\ cpc # "settle") => cpc = "scrollTop"
     /\ (cpc' = "screenshot" /\ cpc # "screenshot") => cpc = "settle"
     /\ (pc = "capture" /\ (fs' # fs \/ (capStatus' # capStatus /\ capStatus'[env] = "ok"))) =>
          /\ cpc = "screenshot"
          /\ totalHeight >= dom.height
          /\ dom \in Documents
          /\ fs'[FilePath(env, pagePath)] = FullPageImage(dom)]_vars

\* the screenshot of a page two viewports high has been taken after six
\* scroll steps
C15_Witness ==
  /\ InCapture("returned")
  /\ capStatus[env] = "ok"
  /\ dom = Document(1600, "block")
  /\ totalHeight = 6 * ScrollDistance
  /\ fs[FilePath(env, pagePath)] = FullPageImage(dom)

\* While a feed is being scrolled the end of the document stays one
\* viewport ahead of the scrolled distance: the scrolling promise cannot
\* resolve, however many steps are taken.
FeedStaysAhead ==
  (pc \in {"capture", "timedOut"} /\ cpc = "scroll" /\ dom.content = "feed") =>
     dom.height - totalHeight = ViewportHeight

\* C16: every capture that has started eventually returns to the test body
\* (with a screenshot or through its catch clause), on every page the sites
\* may serve, a page that grows while it is scrolled included.
C16_EveryCaptureFinishes ==
  [](pc = "capture" => <>(cpc = "returned"))

\* the image files of a page path
FilesOf(path) == {FilePath(d, path) : d \in Dirs}

\* C17: file paths are page-specific: two different configured page paths
\* have no file path in common, so while the loop body of one page runs
\* (its captures and its comparison) no file of another configured page
\* changes.
C17_PageSpecificFiles ==
  [][(pc \in {"capture", "compare"}) =>
       \A i \in DOMAIN urls : urls[i] # pagePath =>
          /\ FilesOf(urls[i]) \cap FilesOf(pagePath) = {}
          /\ \A p \in FilesOf(urls[i]) : fs'[p] = fs[p]
    ]_vars

\* C18: a comparison writes the diff file of its page exactly when it
\* yields a numeric similarity: then the file holds the diff of the two
\* resized images; when the page is recorded with a string (a file was
\* missing, the sizes differed, or the comparison threw) the diff file is as
\* it was before, present or absent.
C18_DiffFileIffNumeric ==
  [][(pc = "compare") =>
       LET diffPath == FilePath("diff", pagePath)
           recorded == results'[Len(results')].similarityPercentage
       IN  IF IsNumber(recorded)
           THEN /\ cmp'.wroteDiff
                /\ fs'[diffPath] =
                     DiffPng(CanonicalWidth, CanonicalHeight, cmp'.mismatchedPixels)
           ELSE /\ ~cmp'.wroteDiff
                /\ fs'[diffPath] = fs[diffPath]
    ]_vars

\* a finished run of two pages: the first was compared and has its diff
\* file; the comparison of the second threw on a corrupt prod file and the
\* diff file an earlier run left for it is still there
C18_Witness ==
  /\ pc = "done"
  /\ Len(urls) = 2
  /\ IsNumber(ResultOf(urls[1]).similarityPercentage)
  /\ fs[FilePath("diff", urls[1])].kind = "diff"
  /\ fs[FilePath("diff", urls[1])] # StaleDiff
  /\ ResultOf(urls[2]) = Result(urls[2], ErrorValue, SharpError)
  /\ fs[FilePath("diff", urls[2])] = StaleDiff

\* Once the test body is past its first statement both module variables are
\* set: no later use (captureScreenshot, acceptCookies, compareScreenshots)
\* meets an unset variable.
LaterUsesFindVariablesSet ==
  pc \notin {"start", "failed"} => (pixelmatchSet /\ chalkSet)

\* C19: the imports have completed before the first use of pixelmatch or
\* chalk, however the import callback and the test interleave: the test
\* body never runs into an unset variable.
C19_ImportsCompleteBeforeUse ==
  pc # "start" => (chalkSet /\ pc # "failed")

====
